---- MODULE Spec2Model ----
(***************************************************************************)
(* A model of the macro HTTP dispatch layer: the route table and its       *)
(* registration (Macro.route), route lookup (Macro._find_route), the cast  *)
(* of path variables (Macro._cast_path_vars), dispatch (Macro.__call__,    *)
(* Macro.handle_http, Macro._parse) and the serialization of responses     *)
(* (Response.prepare_headers, Response.send, StreamingResponse.send).      *)
(*                                                                         *)
(* Paths, templates and regular expressions are sequences of one-character *)
(* strings. Byte strings (bodies, header values) are TLA+ strings. Python  *)
(* dicts are kept in insertion order: the route table and the header dict  *)
(* are sequences of entries with distinct keys.                            *)
(***************************************************************************)
EXTENDS Integers, Sequences, FiniteSets, TLC

\* The number of registrations (calls of Macro.route) in one behaviour.
MaxRoutes == 2

\* The number of messages the transport delivers to one dispatch.
MaxMsgs == 2

\* The number of concurrent or successive send calls on one response.
MaxCalls == 2

\* The number of items of a streaming response's content.
MaxChunks == 2

\* The number of set_cookie calls on one response.
MaxCookies == 2

\* The number of header insertions into one RequestHeader.
MaxInserts == 3

None == "None"

(***************************************************************************)
(* Python dicts: insertion-ordered sequences of <<key, value>>.            *)
(***************************************************************************)
DictHas(d, k) == \E i \in 1..Len(d) : d[i][1] = k

DictGet(d, k) == d[CHOOSE i \in 1..Len(d) : d[i][1] = k][2]

\* d[k] = v: an existing key keeps its place, a new key goes to the end.
DictSet(d, k, v) ==
    IF DictHas(d, k)
    THEN [i \in 1..Len(d) |-> IF d[i][1] = k THEN <<k, v>> ELSE d[i]]
    ELSE Append(d, <<k, v>>)

\* del d[k]
DictDel(d, k) == SelectSeq(d, LAMBDA e : e[1] # k)

(***************************************************************************)
(* Path templates and their regular expressions.                           *)
(***************************************************************************)
\* "/items/{id}"
TplItem == <<"/", "i", "t", "e", "m", "s", "/", "{", "i", "d", "}">>
\* "/items/new"
TplNew == <<"/", "i", "t", "e", "m", "s", "/", "n", "e", "w">>
\* "/a+b"
TplPlus == <<"/", "a", "+", "b">>

Templates == {TplItem, TplNew, TplPlus}

\* One element of a regular expression's source: a character, or the text
\* (?P<name>[^/]+) that re.sub writes for a placeholder.
ReChar(c) == [t |-> "ch", c |-> c]
ReGroup(name) == [t |-> "grp", name |-> name]

\* The end of the placeholder opening at tpl[i] = "{": the last "}" that
\* [^/]+ (greedy, at least one character, no "/") can be followed by; 0 if
\* the pattern {([^/]+)} does not match at i.
PlaceholderEnd(tpl, i) ==
    LET ends == {j \in (i + 2)..Len(tpl) :
                    /\ tpl[j] = "}"
                    /\ \A x \in (i + 1)..(j - 1) : tpl[x] # "/"}
    IN IF tpl[i] = "{" /\ ends # {}
       THEN CHOOSE j \in ends : \A k \in ends : k <= j
       ELSE 0

RECURSIVE re_sub_from(_, _)
re_sub_from(tpl, i) ==
    IF i > Len(tpl) THEN <<>>
    ELSE LET j == PlaceholderEnd(tpl, i)
         IN IF j = 0
            THEN <<ReChar(tpl[i])>> \o re_sub_from(tpl, i + 1)
            ELSE <<ReGroup(SubSeq(tpl, i + 1, j - 1))>> \o re_sub_from(tpl, j + 1)

\* re.sub(r"{([^/]+)}", r"(?P<\1>[^/]+)", path)
re_sub(tpl) == re_sub_from(tpl, 1)

\* The characters the regular expression compiler reads as operators, of
\* those that occur in the templates of this model.
IsQuantifier(e) == e.t = "ch" /\ e.c \in {"+", "?"}

\* The atoms of a regular expression: a character class with a repetition.
\* cls "lit" matches the character c, "any" (the source character ".") any
\* character, "notslash" ([^/]) any character but "/". q is "1", "+" or "?".
RECURSIVE re_atoms_from(_, _)
re_atoms_from(re, i) ==
    IF i > Len(re) THEN <<>>
    ELSE LET e == re[i]
             quantified == i < Len(re) /\ IsQuantifier(re[i + 1])
             base == IF e.t = "grp"
                     THEN [cls |-> "notslash", c |-> "", q |-> "+", name |-> e.name]
                     ELSE IF e.c = "."
                     THEN [cls |-> "any", c |-> "", q |-> "1", name |-> <<>>]
                     ELSE [cls |-> "lit", c |-> e.c, q |-> "1", name |-> <<>>]
         IN IF quantified /\ e.t = "ch"
            THEN <<[base EXCEPT !.q = re[i + 1].c]>> \o re_atoms_from(re, i + 2)
            ELSE <<base>> \o re_atoms_from(re, i + 1)

re_compile(re) == re_atoms_from(re, 1)

AtomAccepts(a, c) ==
    CASE a.cls = "lit" -> c = a.c
      [] a.cls = "any" -> c # "\n"
      [] a.cls = "notslash" -> c # "/"

\* How many characters atom a may consume of a string of length n.
AtomReps(a, n) ==
    CASE a.q = "1" -> {1}
      [] a.q = "+" -> 1..n
      [] a.q = "?" -> {0, 1}

\* atoms[i..] matches exactly s[j..].
RECURSIVE MatchFrom(_, _, _, _)
MatchFrom(atoms, s, i, j) ==
    IF i > Len(atoms) THEN j = Len(s) + 1
    ELSE \E k \in AtomReps(atoms[i], Len(s)) :
            /\ j + k - 1 <= Len(s)
            /\ \A x \in j..(j + k - 1) : AtomAccepts(atoms[i], s[x])
            /\ MatchFrom(atoms, s, i + 1, j + k)

\* re.fullmatch(route_path, path) is not None
re_fullmatch(re, s) == MatchFrom(re_compile(re), s, 1, 1)

\* The number of characters atoms[i] takes in the match the backtracking
\* matcher finds first: the longest that lets the rest match.
GreedyLen(atoms, s, i, j) ==
    LET ok == {k \in AtomReps(atoms[i], Len(s)) :
                  /\ j + k - 1 <= Len(s)
                  /\ \A x \in j..(j + k - 1) : AtomAccepts(atoms[i], s[x])
                  /\ MatchFrom(atoms, s, i + 1, j + k)}
    IN CHOOSE k \in ok : \A m \in ok : m <= k

\* The named groups of the match, as a set of <<name, captured text>>.
RECURSIVE GroupsFrom(_, _, _, _)
GroupsFrom(atoms, s, i, j) ==
    IF i > Len(atoms) THEN {}
    ELSE LET k == GreedyLen(atoms, s, i, j)
             rest == GroupsFrom(atoms, s, i + 1, j + k)
         IN IF atoms[i].name = <<>> THEN rest
            ELSE {<<atoms[i].name, SubSeq(s, j, j + k - 1)>>} \cup rest

StrVal(s) == [t |-> "str", s |-> s]
IntVal(n) == [t |-> "int", n |-> n]

\* match.groupdict(): group name -> captured string
groupdict(re, s) ==
    LET gs == GroupsFrom(re_compile(re), s, 1, 1)
    IN [n \in {g[1] : g \in gs} |-> StrVal((CHOOSE g \in gs : g[1] = n)[2])]


(***************************************************************************)
(* Route handlers: application code, as in examples/hello.py. A handler is *)
(* known to the dispatcher by its signature, which _cast_path_vars reads,  *)
(* and by the response it returns.                                         *)
(***************************************************************************)
Handlers == {"get_item", "show", "index", "feed", "boom"}

NameId == <<"i", "d">>

\* inspect.signature(fn).parameters after the request parameter, in order:
\* get_item(request, id: int), show(request, id), index(request),
\* feed(request), boom(request, id: int).
Signature(fn) ==
    CASE fn = "get_item" -> <<[name |-> NameId, annotation |-> "int"]>>
      [] fn = "boom" -> <<[name |-> NameId, annotation |-> "int"]>>
      [] fn = "show" -> <<[name |-> NameId, annotation |-> "empty"]>>
      [] OTHER -> <<>>

Methods == {"GET", "POST"}

\* The calls of Macro.route the application makes.
Registrations ==
    { <<TplItem, "GET", "get_item">>, <<TplItem, "GET", "show">>,
      <<TplItem, "POST", "boom">>, <<TplNew, "GET", "index">>,
      <<TplNew, "POST", "feed">>, <<TplNew, "GET", "show">>,
      <<TplPlus, "GET", "index">> }

(***************************************************************************)
(* The route table: dict[str, dict[str, RouteT]], in insertion order.      *)
(***************************************************************************)
NoMethods == <<>>

\* Macro.route(path, method)(func)
route(rs, path, method, func) ==
    LET path_regex == re_sub(path)
        table == IF DictHas(rs, path_regex) THEN rs
                 ELSE Append(rs, <<path_regex, NoMethods>>)
        methods == DictGet(table, path_regex)
        added == [m \in DOMAIN methods \cup {method} |->
                     IF m = method THEN func ELSE methods[m]]
    IN DictSet(table, path_regex, added)

\* A walk that keeps the last entry that fits instead of returning the first.
FindIndexLast(rs, path, method) ==
    LET hits == {i \in 1..Len(rs) :
                    re_fullmatch(rs[i][1], path) /\ method \in DOMAIN rs[i][2]}
    IN IF hits = {} THEN 0 ELSE CHOOSE i \in hits : \A k \in hits : k <= i

\* The index of the entry _find_route returns from, 0 if it returns (None, {}).
FindIndex(rs, path, method) ==
    LET hits == {i \in 1..Len(rs) :
                    re_fullmatch(rs[i][1], path) /\ method \in DOMAIN rs[i][2]}
    IN IF hits = {} THEN 0 ELSE CHOOSE i \in hits : \A k \in hits : i <= k

NoPathVars == <<>>

\* Macro._find_route(path, method)
_find_route(rs, path, method) ==
    LET i == FindIndex(rs, path, method)
    IN IF i = 0 THEN [fn |-> None, path_vars |-> NoPathVars]
       ELSE [fn |-> rs[i][2][method], path_vars |-> groupdict(rs[i][1], path)]

Digits == {"0", "1", "2", "3", "4", "5", "6", "7", "8", "9"}

DigitValue(c) == CHOOSE n \in 0..9 : ToString(n) = c

\* int(s) of a string of this model's characters: defined on digit strings.
IntAccepts(s) == Len(s) > 0 /\ \A i \in 1..Len(s) : s[i] \in Digits

RECURSIVE IntOf(_)
IntOf(s) ==
    IF Len(s) = 0 THEN 0
    ELSE 10 * IntOf(SubSeq(s, 1, Len(s) - 1)) + DigitValue(s[Len(s)])

\* param.annotation(value) raises TypeError or ValueError
CastRaises(annotation, value) ==
    annotation = "int" /\ ~IntAccepts(value.s)

\* A cast whose result is dropped: the captured string is passed on.
CastValueKept(annotation, value) == value

\* param.annotation(value)
CastValue(annotation, value) ==
    IF annotation = "int" THEN IntVal(IntOf(value.s)) ELSE value

\* The parameters of fn that _cast_path_vars casts.
CastParams(fn, path_vars) ==
    {i \in 1..Len(Signature(fn)) :
        /\ Signature(fn)[i].name \in DOMAIN path_vars
        /\ Signature(fn)[i].annotation # "empty"}

\* Macro._cast_path_vars(fn, path_vars): raised is the ValueError.
_cast_path_vars(fn, path_vars) ==
    LET sig == Signature(fn)
        cast == CastParams(fn, path_vars)
    IN IF \E i \in cast : CastRaises(sig[i].annotation, path_vars[sig[i].name])
       THEN [raised |-> TRUE, path_vars |-> NoPathVars]
       ELSE [raised |-> FALSE,
             path_vars |->
                [n \in DOMAIN path_vars |->
                    IF \E i \in cast : sig[i].name = n
                    THEN CastValue(sig[CHOOSE i \in cast : sig[i].name = n].annotation,
                                   path_vars[n])
                    ELSE path_vars[n]]]

\* fn(request, **path_vars) binds: every keyword is a parameter of fn and
\* every parameter of fn (none has a default) is given. Otherwise the call
\* raises TypeError.
CallBinds(fn, path_vars) ==
    DOMAIN path_vars = {Signature(fn)[i].name : i \in 1..Len(Signature(fn))}

(***************************************************************************)
(* Responses.                                                              *)
(***************************************************************************)
NoContent == [iter |-> FALSE, items |-> <<>>]

\* Response(status=..., headers=..., body=...); _sent defaults to False.
Response(status, headers, body) ==
    [cls |-> "Response", status |-> status, headers |-> headers, body |-> body,
     content |-> NoContent, sent |-> FALSE]

\* Response.text(text, status)
ResponseText(text, status) ==
    Response(status, <<<<"Content-Type", "text/plain; charset=utf-8">>>>, text)

\* StreamingResponse(content, status, headers)
StreamingResponse(content, status, headers) ==
    [cls |-> "StreamingResponse", status |-> status,
     headers |-> IF DictHas(headers, "Content-Length")
                 THEN DictDel(headers, "Content-Length") ELSE headers,
     body |-> "", content |-> content, sent |-> FALSE]

\* str.lower() on the header names of this model.
Lower(key) ==
    CASE key = "Content-Length" -> "content-length"
      [] key = "CONTENT-LENGTH" -> "content-length"
      [] key = "Content-Type" -> "content-type"
      [] key = "Location" -> "location"
      [] key = "Set-Cookie" -> "set-cookie"
      [] OTHER -> key

\* Response.prepare_headers()
prepare_headers(r) ==
    LET final_headers ==
            IF ~DictHas(r.headers, "Content-Length")
            THEN DictSet(r.headers, "Content-Length", ToString(Len(r.body)))
            ELSE r.headers
    IN [i \in 1..Len(final_headers) |->
           <<Lower(final_headers[i][1]), final_headers[i][2]>>]

StartEvent(r) ==
    [type |-> "http.response.start", status |-> r.status,
     headers |-> prepare_headers(r)]

BodyEvent(body, more_body) ==
    [type |-> "http.response.body", body |-> body, more_body |-> more_body]

\* Items of a streaming response's content: bytes, str or int objects.
BytesItem(s) == [t |-> "bytes", s |-> s]
StrItem(s) == [t |-> "str", s |-> s]
IntItem(n) == [t |-> "int", n |-> n]

\* chunk if isinstance(chunk, bytes) else str(chunk).encode("utf-8");
\* the str items of this model are ASCII.
ChunkBytes(chunk) ==
    CASE chunk.t = "bytes" -> chunk.s
      [] chunk.t = "str" -> chunk.s
      [] chunk.t = "int" -> ToString(chunk.n)

\* The events Response.send awaits send_func with, in order.
ResponseSendEvents(r) == <<StartEvent(r), BodyEvent(r.body, FALSE)>>

\* A streaming send that ends with its last chunk, without the empty event.
StreamingSendEventsUnterminated(r) ==
    <<StartEvent(r)>> \o
    [i \in 1..Len(r.content.items) |->
        BodyEvent(ChunkBytes(r.content.items[i]), r.content.iter)]

\* The events StreamingResponse.send awaits send_func with, in order.
StreamingSendEvents(r) ==
    <<StartEvent(r)>> \o
    (IF r.content.iter
     THEN [i \in 1..Len(r.content.items) |->
              BodyEvent(ChunkBytes(r.content.items[i]), TRUE)]
          \o <<BodyEvent("", FALSE)>>
     ELSE <<BodyEvent(ChunkBytes(r.content.items[1]), FALSE)>>)

SendEvents(r) ==
    IF r.cls = "StreamingResponse" THEN StreamingSendEvents(r)
    ELSE ResponseSendEvents(r)

\* A send without the check of _sent.
already_sent_unchecked(r) == FALSE

\* if self._sent: raise RuntimeError("Response has already been sent")
already_sent(r) == r.sent

\* The errors a handler raises while it runs: boom raises ValueError, the
\* kind of error that _cast_path_vars raises, or another error.
HandlerErrors(fn) ==
    IF fn = "boom" THEN {"ValueError", "KeyError"} ELSE {}

\* An except clause that would also cover the call of the handler.
except_covers_any_value_error(error) == error = "ValueError"

\* Whether the except ValueError clause of handle_http covers an error of the
\* handler: the handler is called in the else clause of the try statement,
\* which the except clause does not cover.
except_covers_handler(error) == FALSE

\* What each handler that returns returns.
HandlerResult(fn) ==
    CASE fn = "get_item" -> ResponseText("item", 200)
      [] fn = "show" -> Response(200, <<>>, "ok")
      [] fn = "index" -> ResponseText("Hello, world!", 200)
      [] fn = "feed" ->
            StreamingResponse([iter |-> TRUE, items |-> <<BytesItem("a"), StrItem("b")>>],
                              200, <<<<"Content-Type", "text/plain">>>>)

(***************************************************************************)
(* Requests: the connection scopes and the messages of the transport.      *)
(***************************************************************************)
\* "/items/42"
PathItem42 == <<"/", "i", "t", "e", "m", "s", "/", "4", "2">>
\* "/items/abc"
PathItemAbc == <<"/", "i", "t", "e", "m", "s", "/", "a", "b", "c">>
\* "/items/new"
PathItemNew == <<"/", "i", "t", "e", "m", "s", "/", "n", "e", "w">>
\* "/items/42?x"
PathItem42Query == <<"/", "i", "t", "e", "m", "s", "/", "4", "2", "?", "x">>
\* "/items/new?x"
PathItemNewQuery == <<"/", "i", "t", "e", "m", "s", "/", "n", "e", "w", "?", "x">>
\* "/a+b"
PathPlus == <<"/", "a", "+", "b">>
\* "/aab"
PathAab == <<"/", "a", "a", "b">>
\* "/nope"
PathNope == <<"/", "n", "o", "p", "e">>

Paths ==
    {PathItem42, PathItemAbc, PathItemNew, PathItem42Query, PathItemNewQuery,
     PathPlus, PathAab, PathNope}

HttpScopes == [type : {"http"}, path : Paths, method : Methods]

OtherScopes == {[type |-> "websocket", path |-> PathItem42], [type |-> "lifespan"]}

Scopes == HttpScopes \cup OtherScopes

\* What receive() may return: request messages with or without the body and
\* more_body keys, and messages of another type.
Messages ==
    [type : {"http.request"}, body : {"x"}, more_body : BOOLEAN]
    \cup {[type |-> "http.request"], [type |-> "http.disconnect"]}

\* message.get("body", b"")
MessageBody(message) == IF "body" \in DOMAIN message THEN message.body ELSE ""

\* message.get("more_body", True)
MessageMoreDefaultsTrue(message) ==
    IF "more_body" \in DOMAIN message THEN message.more_body ELSE TRUE

\* message.get("more_body", False)
MessageMore(message) ==
    IF "more_body" \in DOMAIN message THEN message.more_body ELSE FALSE

\* Request.path_without_query
path_without_query(path) ==
    IF \E i \in 1..Len(path) : path[i] = "?"
    THEN SubSeq(path, 1, (CHOOSE i \in 1..Len(path) :
                             /\ path[i] = "?"
                             /\ \A k \in 1..(i - 1) : path[k] # "?") - 1)
    ELSE path

\* A dispatcher that takes websocket scopes for HTTP ones.
is_http_or_websocket(sc) == sc.type \in {"http", "websocket"}

\* scope["type"] == "http"
is_http(sc) == sc.type = "http"

\* Response(status=404, body=b"Not Found")
NotFound == Response(404, <<>>, "Not Found")

\* The two events Macro.__call__ sends for a scope that is not HTTP.
RejectEvents ==
    << [type |-> "http.response.start", status |-> 400,
        headers |-> <<<<"content-type", "text/plain">>>>],
       [type |-> "http.response.body", body |-> "Only HTTP requests are supported"] >>

(***************************************************************************)
(* State.                                                                  *)
(***************************************************************************)
VARIABLES
    routes,     \* Macro.routes
    reglog,     \* the calls of Macro.route so far, in order
    pc,         \* where the dispatch of the current call stands
    scope,      \* the scope of the current call
    body,       \* _parse: the body accumulated so far
    nrecv,      \* the number of receive() calls of the current call
    pulled,     \* the messages receive() gave the current call, in order
    looked,     \* whether the current call has run _find_route
    sel,        \* handle_http: what _find_route returned
    invoked,    \* the handler call made: function, keyword arguments, request
    response,   \* handle_http: the response object
    events,     \* what the current call has passed to the transport's send
    err,        \* the exception that left the current call
    inst,       \* a response instance that application code sends itself
    calls,      \* the send calls on inst: each one's position
    wire,       \* what each send call on inst passed to the transport, in order
    cookie_self,  \* a response that application code calls set_cookie on
    cookie_log,   \* the set_cookie calls on cookie_self so far, in order
    chained,      \* the object each set_cookie call returned, in order
    header_obj,   \* a RequestHeader: its _headers
    inserted      \* the header insertions into header_obj so far, in order

dvars == <<pc, scope, body, nrecv, pulled, looked, sel, invoked, response, events, err>>

svars == <<inst, calls, wire>>

ovars == <<cookie_self, cookie_log, chained, header_obj, inserted>>

vars == <<routes, reglog, dvars, svars, ovars>>

NoSel == [fn |-> None, path_vars |-> NoPathVars]

NoScope == [type |-> "none"]

NoCall == [fn |-> None]

NoResponse == [cls |-> None]

IdleCalls == [c \in 1..MaxCalls |-> [pc |-> "idle", i |-> 0]]

NoEvents == [c \in 1..MaxCalls |-> <<>>]

InitDispatch ==
    /\ routes = <<>>
    /\ reglog = <<>>
    /\ pc = "idle"
    /\ scope = NoScope
    /\ body = ""
    /\ nrecv = 0
    /\ pulled = <<>>
    /\ looked = FALSE
    /\ sel = NoSel
    /\ invoked = NoCall
    /\ response = NoResponse
    /\ events = <<>>
    /\ err = None

InitSendIdle ==
    /\ inst = NoResponse
    /\ calls = IdleCalls
    /\ wire = NoEvents

InitCookieIdle ==
    /\ cookie_self = NoResponse
    /\ cookie_log = <<>>
    /\ chained = <<>>

InitHeaderIdle ==
    /\ header_obj = <<>>
    /\ inserted = <<>>

Init ==
    /\ InitDispatch
    /\ InitSendIdle
    /\ InitCookieIdle
    /\ InitHeaderIdle

\* The record of the previous call is dropped.
ResetCall ==
    /\ body' = ""
    /\ nrecv' = 0
    /\ pulled' = <<>>
    /\ looked' = FALSE
    /\ sel' = NoSel
    /\ invoked' = NoCall
    /\ response' = NoResponse
    /\ events' = <<>>
    /\ err' = None

\* The gateway is done with a call that returned or raised: the record of the
\* call is dropped. Macro keeps nothing of a call but its route table.
Forget ==
    /\ pc \in {"returned", "raised"}
    /\ pc' = "idle"
    /\ scope' = NoScope
    /\ ResetCall
    /\ UNCHANGED <<routes, reglog, svars, ovars>>

\* The application registers a route; no dispatch is in flight.
Register(path, method, func) ==
    /\ pc = "idle"
    /\ Len(reglog) < MaxRoutes
    /\ routes' = route(routes, path, method, func)
    /\ reglog' = Append(reglog, <<path, method, func>>)
    /\ UNCHANGED <<dvars, svars, ovars>>

\* Macro.__call__(scope, receive, send), up to its first await: of
\* receive() in _parse for an HTTP scope, of send(start) otherwise.
Call(sc) ==
    /\ pc = "idle"
    /\ scope' = sc
    /\ body' = ""
    /\ nrecv' = 0
    /\ pulled' = <<>>
    /\ looked' = FALSE
    /\ sel' = NoSel
    /\ invoked' = NoCall
    /\ response' = NoResponse
    /\ err' = None
    /\ IF is_http(sc)
       THEN pc' = "parse" /\ events' = <<>>
       ELSE pc' = "reject" /\ events' = <<RejectEvents[1]>>
    /\ UNCHANGED <<routes, reglog, svars, ovars>>

\* Macro.__call__, a scope that is not HTTP: the second send.
RejectBody ==
    /\ pc = "reject"
    /\ events' = Append(events, RejectEvents[2])
    /\ pc' = "returned"
    /\ UNCHANGED <<routes, reglog, scope, body, nrecv, pulled, looked, sel, invoked,
                   response, err, svars, ovars>>

\* A route lookup that passes over the entries whose handler rejects a
\* captured value.
_find_route_castable(rs, path, method) ==
    LET hits == {i \in 1..Len(rs) :
                    /\ re_fullmatch(rs[i][1], path)
                    /\ method \in DOMAIN rs[i][2]
                    /\ ~_cast_path_vars(rs[i][2][method], groupdict(rs[i][1], path)).raised}
    IN IF hits = {} THEN _find_route(rs, path, method)
       ELSE LET i == CHOOSE i \in hits : \A k \in hits : i <= k
            IN [fn |-> rs[i][2][method], path_vars |-> groupdict(rs[i][1], path)]

\* A dispatch that goes on to the next matching pattern when the handler of
\* a pattern rejects a captured value.
ResolveFallsThrough(newbody) ==
    \E found \in {_find_route_castable(routes, scope.path, scope.method)} :
    \E cast \in {_cast_path_vars(found.fn, found.path_vars)} :
       /\ looked' = TRUE
       /\ sel' = found
       /\ IF found.fn = None
          THEN /\ response' = NotFound
               /\ pc' = "returned"
               /\ UNCHANGED <<invoked, err>>
          ELSE IF cast.raised
          THEN /\ response' = NotFound
               /\ pc' = "send"
               /\ UNCHANGED <<invoked, err>>
          ELSE IF ~CallBinds(found.fn, cast.path_vars)
          THEN /\ err' = "TypeError"
               /\ pc' = "raised"
               /\ UNCHANGED <<invoked, response>>
          ELSE /\ invoked' = [fn |-> found.fn, kwargs |-> cast.path_vars,
                              request |-> [path |-> scope.path,
                                           method |-> scope.method,
                                           body |-> newbody],
                              raised |-> None]
               /\ pc' = "handler"
               /\ UNCHANGED <<response, err>>

\* handle_http from the return of _parse to its next await: of the handler,
\* or of response.send.
Resolve(newbody) ==
    \E found \in {_find_route(routes, scope.path, scope.method)} :
    \E cast \in {_cast_path_vars(found.fn, found.path_vars)} :
       /\ looked' = TRUE
       /\ sel' = found
       /\ IF found.fn = None
          THEN /\ response' = NotFound
               /\ pc' = "returned"
               /\ UNCHANGED <<invoked, err>>
          ELSE IF cast.raised
          THEN /\ response' = NotFound
               /\ pc' = "send"
               /\ UNCHANGED <<invoked, err>>
          ELSE IF ~CallBinds(found.fn, cast.path_vars)
          THEN /\ err' = "TypeError"
               /\ pc' = "raised"
               /\ UNCHANGED <<invoked, response>>
          ELSE /\ invoked' = [fn |-> found.fn, kwargs |-> cast.path_vars,
                              request |-> [path |-> scope.path,
                                           method |-> scope.method,
                                           body |-> newbody],
                              raised |-> None]
               /\ pc' = "handler"
               /\ UNCHANGED <<response, err>>

\* _parse: receive() returns a message. The last message the transport has
\* for this call is one that ends the loop.
Receive(message) ==
    /\ pc = "parse"
    /\ nrecv < MaxMsgs
    /\ LET request == message.type = "http.request"
           newbody == IF request THEN body \o MessageBody(message) ELSE body
           more_body == IF request THEN MessageMore(message) ELSE TRUE
       IN /\ nrecv + 1 = MaxMsgs => ~more_body
          /\ nrecv' = nrecv + 1
          /\ pulled' = Append(pulled, message)
          /\ body' = newbody
          /\ IF more_body
             THEN /\ pc' = "parse"
                  /\ UNCHANGED <<looked, sel, invoked, response, err>>
             ELSE Resolve(newbody)
    /\ UNCHANGED <<routes, reglog, scope, events, svars, ovars>>

\* await fn(request, **path_vars): the handler returns its response.
HandlerReturn ==
    /\ pc = "handler"
    /\ HandlerErrors(invoked.fn) = {}
    /\ response' = HandlerResult(invoked.fn)
    /\ pc' = "send"
    /\ UNCHANGED <<routes, reglog, scope, body, nrecv, pulled, looked, sel, invoked,
                   events, err, svars, ovars>>

\* await fn(request, **path_vars): the handler raises. invoked.raised keeps
\* what it raised.
HandlerRaise(error) ==
    /\ pc = "handler"
    /\ error \in HandlerErrors(invoked.fn)
    /\ invoked' = [invoked EXCEPT !.raised = error]
    /\ IF except_covers_handler(error)
       THEN /\ response' = NotFound
            /\ pc' = "send"
            /\ UNCHANGED err
       ELSE /\ err' = error
            /\ pc' = "raised"
            /\ UNCHANGED response
    /\ UNCHANGED <<routes, reglog, scope, body, nrecv, pulled, looked, sel, events, svars, ovars>>

\* await response.send(send): one await of send_func; the first is preceded
\* by the check of _sent, the last followed by _sent = True.
SendStep ==
    /\ pc = "send"
    /\ IF already_sent(response)
       THEN /\ err' = "RuntimeError"
            /\ pc' = "raised"
            /\ UNCHANGED <<events, response>>
       ELSE LET evs == SendEvents(response)
                i == Len(events) + 1
            IN /\ events' = Append(events, evs[i])
               /\ IF i = Len(evs)
                  THEN /\ response' = [response EXCEPT !.sent = TRUE]
                       /\ pc' = "returned"
                  ELSE UNCHANGED <<response, pc>>
               /\ UNCHANGED err
    /\ UNCHANGED <<routes, reglog, scope, body, nrecv, pulled, looked, sel, invoked, svars, ovars>>

Next ==
    \/ \E r \in Registrations : Register(r[1], r[2], r[3])
    \/ \E sc \in Scopes : Call(sc)
    \/ Forget
    \/ RejectBody
    \/ \E message \in Messages : Receive(message)
    \/ HandlerReturn
    \/ \E error \in {"ValueError", "KeyError"} : HandlerRaise(error)
    \/ SendStep

Spec == Init /\ [][Next]_vars

(***************************************************************************)
(* Application code that sends a response instance itself: up to MaxCalls  *)
(* calls of send on one instance, interleaved at their awaits, over a      *)
(* transport whose send may raise.                                         *)
(***************************************************************************)
Items == {BytesItem("a"), StrItem("b"), IntItem(3)}

SeqsUpTo(S, n) == UNION {[1..k -> S] : k \in 0..n}

Contents ==
    {[iter |-> TRUE, items |-> items] : items \in SeqsUpTo(Items, MaxChunks)}
    \cup {[iter |-> FALSE, items |-> <<BytesItem("z")>>],
          [iter |-> FALSE, items |-> <<IntItem(7)>>]}

PlainHeaders ==
    { <<>>, <<<<"Content-Length", "5">>>>, <<<<"content-length", "5">>>>,
      <<<<"Content-Type", "text/plain">>, <<"CONTENT-LENGTH", "5">>>> }

StreamHeaders ==
    { <<>>, <<<<"Content-Length", "9">>>>, <<<<"content-length", "9">>>> }

SendResponses ==
    {Response(200, h, b) : h \in PlainHeaders, b \in {"", "ab"}}
    \cup {StreamingResponse(c, 200, h) : c \in Contents, h \in StreamHeaders}

InitSend ==
    /\ InitDispatch
    /\ inst \in SendResponses
    /\ calls = IdleCalls
    /\ wire = NoEvents
    /\ InitCookieIdle
    /\ InitHeaderIdle

\* send(send_func) is called: the check of _sent, then the first await of
\* send_func, with the start event.
SendBegin(c) ==
    /\ calls[c].pc = "idle"
    /\ IF already_sent(inst)
       THEN /\ calls' = [calls EXCEPT ![c].pc = "raised"]
            /\ UNCHANGED wire
       ELSE /\ wire' = [wire EXCEPT ![c] = Append(@, SendEvents(inst)[1])]
            /\ calls' = [calls EXCEPT ![c] = [pc |-> "awaiting", i |-> 1]]
    /\ UNCHANGED <<inst, routes, reglog, dvars, ovars>>

\* The awaited send_func returns: the next await of send_func, or, after the
\* last one, self._sent = True.
SendResume(c) ==
    /\ calls[c].pc = "awaiting"
    /\ LET evs == SendEvents(inst)
           i == calls[c].i
       IN IF i < Len(evs)
          THEN /\ wire' = [wire EXCEPT ![c] = Append(@, evs[i + 1])]
               /\ calls' = [calls EXCEPT ![c].i = i + 1]
               /\ UNCHANGED inst
          ELSE /\ inst' = [inst EXCEPT !.sent = TRUE]
               /\ calls' = [calls EXCEPT ![c].pc = "done"]
               /\ UNCHANGED wire
    /\ UNCHANGED <<routes, reglog, dvars, ovars>>

\* The awaited send_func raises: the error leaves send.
SendFail(c) ==
    /\ calls[c].pc = "awaiting"
    /\ calls' = [calls EXCEPT ![c].pc = "failed"]
    /\ UNCHANGED <<inst, wire, routes, reglog, dvars, ovars>>

NextSend ==
    \/ \E c \in 1..MaxCalls : SendBegin(c)
    \/ \E c \in 1..MaxCalls : SendResume(c)
    \/ \E c \in 1..MaxCalls : SendFail(c)

SpecSend == InitSend /\ [][NextSend]_vars

(***************************************************************************)
(* Response.set_cookie, called by application code on one response.        *)
(***************************************************************************)
\* An argument that was not passed and whose default is None, where the
\* values passed are integers.
NoneVal == [t |-> "none"]

\* if x: for a str or None.
Truthy(x) == x # None /\ x # ""

\* sep.join(parts)
Join(sep, parts) ==
    LET RECURSIVE from(_)
        from(i) == IF i > Len(parts) THEN ""
                   ELSE IF i = Len(parts) THEN parts[i]
                   ELSE parts[i] \o sep \o from(i + 1)
    IN from(1)

Opt(cond, part) == IF cond THEN <<part>> ELSE <<>>

\* set_cookie with the Path attribute appended before the others.
cookie_parts_path_first(c) ==
    <<c.name \o "=" \o c.value>>
    \o Opt(Truthy(c.path), "Path=" \o c.path)
    \o Opt(c.max_age # NoneVal, "Max-Age=" \o ToString(c.max_age.n))
    \o Opt(c.expires # None, "Expires=" \o c.expires)
    \o Opt(Truthy(c.domain), "Domain=" \o c.domain)
    \o Opt(c.secure, "Secure")
    \o Opt(c.http_only, "HttpOnly")
    \o Opt(Truthy(c.same_site), "SameSite=" \o c.same_site)

\* set_cookie: cookie_parts, from the arguments c of the call.
cookie_parts(c) ==
    <<c.name \o "=" \o c.value>>
    \o Opt(c.max_age # NoneVal, "Max-Age=" \o ToString(c.max_age.n))
    \o Opt(c.expires # None, "Expires=" \o c.expires)
    \o Opt(Truthy(c.path), "Path=" \o c.path)
    \o Opt(Truthy(c.domain), "Domain=" \o c.domain)
    \o Opt(c.secure, "Secure")
    \o Opt(c.http_only, "HttpOnly")
    \o Opt(Truthy(c.same_site), "SameSite=" \o c.same_site)

\* set_cookie(self, **c): self after the call, which is also what the call
\* returns.
set_cookie(self, c) ==
    LET cookie_header == Join("; ", cookie_parts(c))
    IN [self EXCEPT !.headers =
            IF DictHas(self.headers, "Set-Cookie")
            THEN DictSet(self.headers, "Set-Cookie",
                         DictGet(self.headers, "Set-Cookie") \o "\n" \o cookie_header)
            ELSE DictSet(self.headers, "Set-Cookie", cookie_header)]

\* The arguments of set_cookie("sid", "1"): every other parameter at its
\* default.
CookieDefaults ==
    [name |-> "sid", value |-> "1", max_age |-> NoneVal, expires |-> None,
     path |-> "/", domain |-> None, secure |-> FALSE, http_only |-> FALSE,
     same_site |-> None]

CookieCalls ==
    { CookieDefaults,
      [CookieDefaults EXCEPT !.max_age = IntVal(60), !.http_only = TRUE],
      [CookieDefaults EXCEPT !.name = "t", !.value = "", !.max_age = IntVal(0)],
      [CookieDefaults EXCEPT !.expires = "Thu"],
      [CookieDefaults EXCEPT !.expires = "", !.secure = TRUE],
      [CookieDefaults EXCEPT !.path = "/app"],
      [CookieDefaults EXCEPT !.path = ""],
      [CookieDefaults EXCEPT !.path = None, !.domain = ""],
      [CookieDefaults EXCEPT !.domain = "x.org", !.same_site = ""],
      [CookieDefaults EXCEPT !.name = "t", !.same_site = "Lax"],
      [CookieDefaults EXCEPT !.secure = TRUE, !.http_only = TRUE],
      [CookieDefaults EXCEPT !.name = "u", !.value = "2", !.max_age = IntVal(60),
                             !.expires = "Thu", !.path = "/app",
                             !.domain = "x.org", !.secure = TRUE,
                             !.http_only = TRUE, !.same_site = "Lax"] }

\* The responses set_cookie is called on: oid is the identity of the object.
CookieResponses ==
    {[oid |-> 1, headers |-> h] :
        h \in {<<>>, <<<<"Content-Type", "text/plain">>>>}}

InitCookie ==
    /\ InitDispatch
    /\ InitSendIdle
    /\ InitHeaderIdle
    /\ cookie_self \in CookieResponses
    /\ cookie_log = <<>>
    /\ chained = <<>>

\* response.set_cookie(**c)
SetCookie(c) ==
    /\ Len(cookie_log) < MaxCookies
    /\ \E result \in {set_cookie(cookie_self, c)} :
          /\ cookie_self' = result
          /\ chained' = Append(chained, result.oid)
    /\ cookie_log' = Append(cookie_log, c)
    /\ UNCHANGED <<routes, reglog, dvars, svars, header_obj, inserted>>

NextCookie == \E c \in CookieCalls : SetCookie(c)

SpecCookie == InitCookie /\ [][NextCookie]_vars

(***************************************************************************)
(* RequestHeader: header names and values are tuples of characters.        *)
(***************************************************************************)
UpperLetters ==
    <<"A", "B", "C", "D", "E", "F", "G", "H", "I", "J", "K", "L", "M",
      "N", "O", "P", "Q", "R", "S", "T", "U", "V", "W", "X", "Y", "Z">>

LowerLetters ==
    <<"a", "b", "c", "d", "e", "f", "g", "h", "i", "j", "k", "l", "m",
      "n", "o", "p", "q", "r", "s", "t", "u", "v", "w", "x", "y", "z">>

\* A key.lower() that leaves the key as it is.
lower_keeps_case(key) == key

\* key.lower()
lower(key) ==
    [i \in 1..Len(key) |->
        IF \E n \in 1..Len(UpperLetters) : UpperLetters[n] = key[i]
        THEN LowerLetters[CHOOSE n \in 1..Len(UpperLetters) : UpperLetters[n] = key[i]]
        ELSE key[i]]

Whitespace == {" ", "\t", "\r", "\n"}

\* s.strip()
RECURSIVE strip(_)
strip(s) ==
    IF s = <<>> THEN s
    ELSE IF s[1] \in Whitespace THEN strip(Tail(s))
    ELSE IF s[Len(s)] \in Whitespace THEN strip(SubSeq(s, 1, Len(s) - 1))
    ELSE s

\* s.find(sep) + 1: the place of the first occurrence of sep in s, 0 when
\* there is none.
find(s, sep) ==
    LET places == {i \in 1..(Len(s) - Len(sep) + 1) :
                      SubSeq(s, i, i + Len(sep) - 1) = sep}
    IN IF places = {} THEN 0
       ELSE CHOOSE i \in places : \A j \in places : i <= j

\* s.split(sep)
RECURSIVE split(_, _)
split(s, sep) ==
    LET at == find(s, sep)
    IN IF at = 0 THEN <<s>>
       ELSE <<SubSeq(s, 1, at - 1)>>
            \o split(SubSeq(s, at + Len(sep), Len(s)), sep)

\* s.split(sep, 1), for an s that holds sep
split_once(s, sep) ==
    LET at == find(s, sep)
    IN <<SubSeq(s, 1, at - 1), SubSeq(s, at + Len(sep), Len(s))>>

\* RequestHeader.__setitem__ on _headers
__setitem__(headers, key, value) == DictSet(headers, lower(key), value)

\* RequestHeader.__contains__
__contains__(headers, key) == DictHas(headers, lower(key))

\* RequestHeader.__getitem__: KeyError for a missing key
__getitem__(headers, key) ==
    IF DictHas(headers, lower(key)) THEN DictGet(headers, lower(key))
    ELSE "KeyError"

\* RequestHeader.get
get(headers, key, default) ==
    IF DictHas(headers, lower(key)) THEN DictGet(headers, lower(key))
    ELSE default

\* for name, value in scope.get("headers", []): headers[name] = value
RECURSIVE scope_headers(_, _)
scope_headers(headers, list) ==
    IF list = <<>> THEN headers
    ELSE scope_headers(__setitem__(headers, list[1][1], list[1][2]), Tail(list))

\* from_raw_headers: the loop over lines[1:]
RECURSIVE header_lines(_, _)
header_lines(headers, lines) ==
    IF lines = <<>> THEN headers
    ELSE IF find(lines[1], <<":">>) = 0 THEN header_lines(headers, Tail(lines))
    ELSE LET kv == split_once(lines[1], <<":">>)
         IN header_lines(__setitem__(headers, strip(kv[1]), strip(kv[2])),
                         Tail(lines))

CRLF == <<"\r", "\n">>

\* RequestHeader.from_raw_headers(header_data): the _headers of the result
from_raw_headers(header_data) ==
    LET lines == split(header_data, CRLF)
    IN header_lines(<<>>, Tail(lines))

NameHost == <<"H", "o", "s", "t">>

NameHOST == <<"H", "O", "S", "T">>

Namehost == <<"h", "o", "s", "t">>

NameXId == <<"X", "-", "I", "d">>

Namexid == <<"x", "-", "i", "d">>

HeaderNames == {NameHost, NameHOST, Namehost, NameXId, Namexid}

HeaderValues == {<<"a">>, <<"B">>}

RequestLine == <<"G", "E", "T", " ", "/", " ", "H", "T", "T", "P", "/", "1", ".", "1">>

\* The header lines of raw header data: a header written with one of three
\* spacings around the colon, or a line without a colon.
RawHeaders ==
    {[name |-> n, value |-> v, before |-> b, after |-> a] :
        n \in {NameHost, Namehost, NameXId}, v \in {<<"a">>, <<"a", ":", "b">>},
        b \in {<<>>}, a \in {<<>>, <<" ">>}}
    \cup {[name |-> NameHOST, value |-> <<"B">>, before |-> <<" ">>, after |-> <<" ", " ">>],
          [name |-> <<>>, value |-> <<"j", "u", "n", "k">>, before |-> <<>>, after |-> <<>>]}

IsJunk(h) == h.name = <<>>

RawLine(h) ==
    IF IsJunk(h) THEN h.value
    ELSE h.name \o h.before \o <<":">> \o h.after \o h.value

RECURSIVE RawLines(_)
RawLines(hs) == IF hs = <<>> THEN <<>> ELSE CRLF \o RawLine(hs[1]) \o RawLines(Tail(hs))

\* The bytes a client sends for the header lines hs.
RawData(hs) == RequestLine \o RawLines(hs) \o CRLF \o CRLF

InitHeader ==
    /\ InitDispatch
    /\ InitSendIdle
    /\ InitCookieIdle
    /\ InitHeaderIdle

\* headers[key] = value
SetItem(key, value) ==
    /\ Len(inserted) < MaxInserts
    /\ header_obj' = __setitem__(header_obj, key, value)
    /\ inserted' = Append(inserted, <<key, value>>)
    /\ UNCHANGED <<routes, reglog, dvars, svars, cookie_self, cookie_log, chained>>

\* _parse / Request.from_scope_and_body: a new RequestHeader filled from the
\* header list of the scope.
FromScope(list) ==
    /\ inserted = <<>>
    /\ list # <<>>
    /\ header_obj' = scope_headers(<<>>, list)
    /\ inserted' = list
    /\ UNCHANGED <<routes, reglog, dvars, svars, cookie_self, cookie_log, chained>>

\* RequestHeader.from_raw_headers(RawData(hs)): a new RequestHeader filled
\* from raw header lines; inserted keeps the headers the client wrote.
FromRaw(hs) ==
    /\ inserted = <<>>
    /\ \E h \in 1..Len(hs) : ~IsJunk(hs[h])
    /\ header_obj' = from_raw_headers(RawData(hs))
    /\ inserted' = [i \in 1..Len(SelectSeq(hs, LAMBDA h : ~IsJunk(h))) |->
                       <<SelectSeq(hs, LAMBDA h : ~IsJunk(h))[i].name,
                         SelectSeq(hs, LAMBDA h : ~IsJunk(h))[i].value>>]
    /\ UNCHANGED <<routes, reglog, dvars, svars, cookie_self, cookie_log, chained>>

NextHeader ==
    \/ \E key \in HeaderNames, value \in HeaderValues : SetItem(key, value)
    \/ \E list \in SeqsUpTo(HeaderNames \X HeaderValues, MaxInserts - 1) : FromScope(list)
    \/ \E hs \in SeqsUpTo(RawHeaders, MaxInserts - 1) : FromRaw(hs)

SpecHeader == InitHeader /\ [][NextHeader]_vars

(***************************************************************************)
(* Properties.                                                             *)
(***************************************************************************)
IsStart(e, status) == e.type = "http.response.start" /\ e.status = status

IsBody(e, text) == e.type = "http.response.body" /\ e.body = text

\* The values of the content-length entries of a start event, in order.
ContentLengths(e) ==
    [i \in 1..Len(SelectSeq(e.headers, LAMBDA h : h[1] = "content-length")) |->
        SelectSeq(e.headers, LAMBDA h : h[1] = "content-length")[i][2]]

\* The dispatch of an HTTP request has got past route lookup.
Resolved == scope.type = "http" /\ looked

\* C1: every HTTP request for which no handler is resolved gets, once
\* dispatch has returned, a start event with status 404 followed by a body
\* event with body "Not Found", and dispatch does not raise.
C1_NotFoundEmitted ==
    (Resolved /\ sel.fn = None) =>
        /\ pc = "returned"
        /\ err = None
        /\ Len(events) = 2
        /\ IsStart(events[1], 404)
        /\ IsBody(events[2], "Not Found")

\* get_item, whose parameter id is annotated int, is the handler the table
\* holds for the request's method on the pattern of /items/{id}.
ItemRouteRegistered ==
    /\ DictHas(routes, re_sub(TplItem))
    /\ scope.method \in DOMAIN DictGet(routes, re_sub(TplItem))
    /\ DictGet(routes, re_sub(TplItem))[scope.method] = "get_item"

\* C2: with a handler on /items/{id} whose id is annotated int, /items/42
\* invokes it with the integer 42, and /items/abc invokes no handler, gets
\* the 404 "Not Found" response and raises nothing.
C2_IntegerPathVariable ==
    (Resolved /\ ItemRouteRegistered) =>
        /\ scope.path = PathItem42 =>
              /\ invoked.fn = "get_item"
              /\ invoked.kwargs = [n \in {NameId} |-> IntVal(42)]
              /\ err = None
        /\ scope.path = PathItemAbc =>
              /\ invoked = NoCall
              /\ err = None
              /\ pc \in {"send", "returned"}
              /\ pc = "returned" =>
                    /\ Len(events) = 2
                    /\ IsStart(events[1], 404)
                    /\ IsBody(events[2], "Not Found")

C2_Witness ==
    /\ Resolved /\ ItemRouteRegistered
    /\ scope.path = PathItemAbc
    /\ pc = "returned"
    /\ Len(events) = 2

\* A path has the literal structure of a template: it is the template with
\* each {name} placeholder replaced by a non-empty string without "/", every
\* other character equal.
LiteralAtoms(tpl) ==
    [i \in 1..Len(re_sub(tpl)) |->
        IF re_sub(tpl)[i].t = "grp"
        THEN [cls |-> "notslash", c |-> "", q |-> "+", name |-> re_sub(tpl)[i].name]
        ELSE [cls |-> "lit", c |-> re_sub(tpl)[i].c, q |-> "1", name |-> <<>>]]

HasLiteralStructure(tpl, path) == MatchFrom(LiteralAtoms(tpl), path, 1, 1)

\* The registrations of (tpl, method), as indices of reglog.
RegsOf(tpl, method) ==
    {i \in 1..Len(reglog) : reglog[i][1] = tpl /\ reglog[i][2] = method}

\* The handler registered for (tpl, method): that of the latest registration.
RegisteredHandler(tpl, method) ==
    reglog[CHOOSE i \in RegsOf(tpl, method) :
              \A k \in RegsOf(tpl, method) : k <= i][3]

\* C3: for every registered (template, method) pair, whatever else has been
\* registered, a request with that method whose path has the template's
\* literal structure is dispatched to the handler registered for the pair.
C3_RegisteredPairDispatched ==
    Resolved =>
        \A tpl \in Templates :
            (RegsOf(tpl, scope.method) # {} /\ HasLiteralStructure(tpl, scope.path))
                => sel.fn = RegisteredHandler(tpl, scope.method)

\* C4: a request whose incoming path is P?Q selects the same handler, with
\* the same path variables, as a request whose path is P.
C4_QueryStripped ==
    Resolved => sel = _find_route(routes, path_without_query(scope.path), scope.method)

\* C5: the start event of a streaming response carries no content-length
\* entry, whatever headers the response was constructed with.
C5_StreamingOmitsContentLength ==
    \A c \in 1..MaxCalls :
        (inst.cls = "StreamingResponse" /\ Len(wire[c]) > 0)
            => ContentLengths(wire[c][1]) = <<>>

\* The bytes of one item of a streaming response on the wire: the item
\* itself if it is bytes, else the UTF-8 of its text form.
ItemText(item) ==
    IF item.t = "int" THEN ToString(item.n) ELSE item.s

\* C6: a send of a streaming response over a sequence of N items emits the
\* start event, then N body events in order, each with its item's bytes and
\* more_body set, then one body event with an empty body and more_body
\* clear; nothing else, and for N = 0 only the empty final body event.
C6_StreamingChunkSequence ==
    \A c \in 1..MaxCalls :
        (inst.cls = "StreamingResponse" /\ inst.content.iter) =>
            LET items == inst.content.items
                out == wire[c]
            IN /\ Len(out) <= Len(items) + 2
               /\ calls[c].pc = "done" => Len(out) = Len(items) + 2
               /\ \A k \in 1..Len(out) :
                     IF k = 1 THEN out[k].type = "http.response.start"
                     ELSE IF k <= Len(items) + 1
                     THEN /\ IsBody(out[k], ItemText(items[k - 1]))
                          /\ out[k].more_body = TRUE
                     ELSE /\ IsBody(out[k], "")
                          /\ out[k].more_body = FALSE

C6_Witness ==
    \E c \in 1..MaxCalls :
        /\ inst.cls = "StreamingResponse" /\ inst.content.iter
        /\ inst.content.items = <<BytesItem("a"), IntItem(3)>>
        /\ calls[c].pc = "done"
        /\ Len(wire[c]) = 4

\* C7: once a send call on an instance has completed, a send call on the
\* same instance fails and emits nothing: what the transport has received
\* stays what it was.
C7_SecondSendFails ==
    [][\A c \in 1..MaxCalls :
          (inst.sent /\ calls[c].pc = "idle" /\ calls'[c].pc # "idle")
              => (calls'[c].pc = "raised" /\ wire' = wire /\ inst' = inst)]_vars

C7_Witness ==
    \E c, d \in 1..MaxCalls :
        /\ calls[c].pc = "done"
        /\ calls[d].pc = "raised"
        /\ wire[c] = SendEvents([inst EXCEPT !.sent = FALSE])
        /\ wire[d] = <<>>

\* C8: a scope that is not HTTP gets exactly a start event with status 400
\* and one body event saying that only HTTP requests are supported, whatever
\* the route table holds; no route lookup, no handler call, no receive().
C8_NonHttpRejected ==
    scope.type \in {"websocket", "lifespan"} =>
        /\ pc \in {"reject", "returned"}
        /\ nrecv = 0
        /\ ~looked
        /\ invoked = NoCall
        /\ err = None
        /\ Len(events) = IF pc = "returned" THEN 2 ELSE 1
        /\ IsStart(events[1], 400)
        /\ Len(events) = 2 => IsBody(events[2], "Only HTTP requests are supported")

C8_Witness ==
    /\ scope.type = "websocket"
    /\ pc = "returned"
    /\ Len(events) = 2
    /\ \E i \in 1..Len(routes) : re_fullmatch(routes[i][1], scope.path)

\* A Content-Length header is set on the response, in any letter case.
ContentLengthSet(r) ==
    \E i \in 1..Len(r.headers) : Lower(r.headers[i][1]) = "content-length"

\* The values of the Content-Length headers set on the response, in order.
CallerContentLengths(r) ==
    [i \in 1..Len(SelectSeq(r.headers, LAMBDA h : Lower(h[1]) = "content-length")) |->
        SelectSeq(r.headers, LAMBDA h : Lower(h[1]) = "content-length")[i][2]]

\* C9: the start event of a response that is not streaming carries the
\* computed content-length, the byte length of the body, exactly when no
\* Content-Length header is set on the response in any letter case; when one
\* is set, the caller's value is emitted and no computed entry is added.
C9_ContentLengthComputedUnlessSet ==
    \A c \in 1..MaxCalls :
        (inst.cls = "Response" /\ Len(wire[c]) > 0) =>
            ContentLengths(wire[c][1]) =
                IF ContentLengthSet(inst) THEN CallerContentLengths(inst)
                ELSE <<ToString(Len(inst.body))>>

\* The templates registered with a handler for the method whose pattern
\* full-matches the path.
Candidates(path, method) ==
    {tpl \in Templates :
        RegsOf(tpl, method) # {} /\ re_fullmatch(re_sub(tpl), path)}

\* When the pattern of a template entered the table: its first registration.
FirstRegistered(tpl) ==
    CHOOSE i \in 1..Len(reglog) :
        reglog[i][1] = tpl /\ \A k \in 1..(i - 1) : reglog[k][1] # tpl

\* C10: route selection takes the handler of the first pattern, in
\* registration order, that full-matches the path and has a handler for the
\* method; patterns registered earlier that match the path without having
\* the method do not stop the walk; with no such pattern nothing is selected.
C10_FirstRegisteredWins ==
    Resolved =>
        LET cands == Candidates(scope.path, scope.method)
        IN IF cands = {} THEN sel.fn = None
           ELSE LET first == CHOOSE tpl \in cands :
                                \A o \in cands : FirstRegistered(tpl) <= FirstRegistered(o)
                IN /\ sel.fn = RegisteredHandler(first, scope.method)
                   /\ sel.path_vars = groupdict(re_sub(first), scope.path)

C10_Witness ==
    /\ Resolved
    /\ Len(routes) = 2
    /\ \A i \in 1..2 : re_fullmatch(routes[i][1], scope.path)
    /\ \A i \in 1..2 : scope.method \in DOMAIN routes[i][2]
    /\ routes[1][2][scope.method] # routes[2][2][scope.method]
    /\ sel.fn = routes[1][2][scope.method]

\* C11: an error a matched handler raises while it runs, a ValueError
\* included, leaves dispatch as it was raised: it is not turned into a 404
\* response and the call emits no event.
C11_HandlerErrorPropagates ==
    (invoked # NoCall /\ invoked.raised # None) =>
        /\ pc = "raised"
        /\ err = invoked.raised
        /\ response = NoResponse
        /\ events = <<>>

C11_Witness ==
    /\ invoked # NoCall
    /\ invoked.raised = "ValueError"
    /\ invoked.kwargs = [n \in {NameId} |-> IntVal(42)]
    /\ pc = "raised"

\* What the claim says a call's cookie line is: name=value, then each
\* attribute the call supplies, each preceded by "; ".
CookieLine(c) ==
    c.name \o "=" \o c.value
    \o (IF c.max_age = NoneVal THEN "" ELSE "; Max-Age=" \o ToString(c.max_age.n))
    \o (IF c.expires = None THEN "" ELSE "; Expires=" \o c.expires)
    \o (IF c.path \in {None, ""} THEN "" ELSE "; Path=" \o c.path)
    \o (IF c.domain \in {None, ""} THEN "" ELSE "; Domain=" \o c.domain)
    \o (IF c.secure THEN "; Secure" ELSE "")
    \o (IF c.http_only THEN "; HttpOnly" ELSE "")
    \o (IF c.same_site \in {None, ""} THEN "" ELSE "; SameSite=" \o c.same_site)

RECURSIVE CookieLines(_)
CookieLines(log) ==
    IF Len(log) = 1 THEN CookieLine(log[1])
    ELSE CookieLines(SubSeq(log, 1, Len(log) - 1)) \o "\n" \o CookieLine(log[Len(log)])

\* C12: after set_cookie calls on a response that had no Set-Cookie header,
\* the header is the cookie lines of the calls, in call order, joined by
\* newlines; a line is name=value and the supplied attributes in the order
\* Max-Age, Expires, Path, Domain, Secure, HttpOnly, SameSite, joined by
\* "; "; every call returns the response it was called on.
C12_CookieLinesAccumulate ==
    /\ cookie_log # <<>> =>
          /\ DictHas(cookie_self.headers, "Set-Cookie")
          /\ DictGet(cookie_self.headers, "Set-Cookie") = CookieLines(cookie_log)
          /\ Len(SelectSeq(cookie_self.headers, LAMBDA e : e[1] = "Set-Cookie")) = 1
    /\ \A i \in 1..Len(chained) : chained[i] = cookie_self.oid
    /\ (Len(cookie_log) = 1 /\ cookie_log[1].max_age = IntVal(60)
        /\ cookie_log[1].http_only /\ cookie_log[1].name = "sid") =>
          DictGet(cookie_self.headers, "Set-Cookie")
              = "sid=1; Max-Age=60; Path=/; HttpOnly"

C12_Witness ==
    /\ Len(cookie_log) = 2
    /\ cookie_log[1].name = "u"
    /\ cookie_log[2].http_only /\ cookie_log[2].name = "sid"
    /\ DictGet(cookie_self.headers, "Set-Cookie")
          = "u=2; Max-Age=60; Expires=Thu; Path=/app; Domain=x.org; Secure; HttpOnly; SameSite=Lax\nsid=1; Max-Age=60; Path=/; HttpOnly"

\* Two header names that differ at most in the case of their letters.
SameName(a, b) ==
    /\ Len(a) = Len(b)
    /\ \A i \in 1..Len(a) :
          \/ a[i] = b[i]
          \/ \E n \in 1..Len(UpperLetters) :
                {a[i], b[i]} = {UpperLetters[n], LowerLetters[n]}

\* The insertions under the name key, whatever their casing.
InsertionsOf(key) == SelectSeq(inserted, LAMBDA e : SameName(e[1], key))

\* C13: after any sequence of insertions into a RequestHeader every stored
\* key is lower-case, a lookup or membership test with any casing gives the
\* value of the latest insertion under any casing of that name, and no two
\* entries have the same name up to case.
C13_HeaderNamesCaseInsensitive ==
    /\ \A i \in 1..Len(header_obj) : \A j \in 1..Len(header_obj[i][1]) :
          \A n \in 1..Len(UpperLetters) : header_obj[i][1][j] # UpperLetters[n]
    /\ \A i, j \in 1..Len(header_obj) :
          SameName(header_obj[i][1], header_obj[j][1]) => i = j
    /\ \A key \in HeaderNames :
          LET ins == InsertionsOf(key)
          IN IF ins = <<>>
             THEN /\ ~__contains__(header_obj, key)
                  /\ get(header_obj, key, None) = None
             ELSE /\ __contains__(header_obj, key)
                  /\ __getitem__(header_obj, key) = ins[Len(ins)][2]
                  /\ get(header_obj, key, None) = ins[Len(ins)][2]

C13_Witness ==
    /\ Len(inserted) = 3
    /\ inserted[1] = <<NameHost, <<"a", ":", "b">>>>
    /\ inserted[2] = <<NameHOST, <<"B">>>>
    /\ inserted[3] = <<NameXId, <<"a">>>>
    /\ header_obj = << <<Namehost, <<"B">>>>, <<Namexid, <<"a">>>> >>

\* The send calls on inst that have passed an event to the transport.
Emitters == {c \in 1..MaxCalls : wire[c] # <<>>}

\* C14: whatever the interleaving of the send calls on one response
\* instance, at most one of them emits events, so the transport gets at most
\* one start event from the instance.
C14_AtMostOneCallEmits == Cardinality(Emitters) <= 1

\* A request message that signals no more data.
LastChunk(m) ==
    /\ m.type = "http.request"
    /\ "more_body" \in DOMAIN m => ~m.more_body

\* The body chunk a message carries: none unless it is a request message.
ChunkOf(m) ==
    IF m.type = "http.request" /\ "body" \in DOMAIN m THEN m.body ELSE ""

RECURSIVE ChunksOf(_)
ChunksOf(ms) ==
    IF ms = <<>> THEN "" ELSE ChunkOf(Head(ms)) \o ChunksOf(Tail(ms))

C16_LiteralCharactersMatchExactly ==
    Resolved =>
        \A i \in 1..Len(reglog) :
            re_fullmatch(re_sub(reglog[i][1]), scope.path)
                => HasLiteralStructure(reglog[i][1], scope.path)

\* The handler that a path variable's cast rejects: an int-annotated
\* parameter of fn is given a captured string that is no integer literal.
CastRejects(fn, path_vars) ==
    \E i \in 1..Len(Signature(fn)) :
        /\ Signature(fn)[i].annotation = "int"
        /\ Signature(fn)[i].name \in DOMAIN path_vars
        /\ \/ path_vars[Signature(fn)[i].name].s = <<>>
           \/ \E j \in 1..Len(path_vars[Signature(fn)[i].name].s) :
                 path_vars[Signature(fn)[i].name].s[j] \notin Digits

\* The first templates, in registration order, of a set of templates.
FirstOf(cands) ==
    {tpl \in cands : \A o \in cands : FirstRegistered(tpl) <= FirstRegistered(o)}

\* C17: when the handler selected for a request, that of the first pattern
\* registered that matches path and method, rejects a captured path variable
\* in casting, the request ends "not found" and no handler is invoked, not
\* even that of a pattern registered later that matches and would accept.
C17_CastFailureIsNotFound ==
    Resolved =>
        \A first \in FirstOf(Candidates(scope.path, scope.method)) :
            CastRejects(RegisteredHandler(first, scope.method),
                        groupdict(re_sub(first), scope.path)) =>
               /\ invoked = NoCall
               /\ err = None
               /\ response.cls = "Response" /\ response.status = 404
               /\ response.body = "Not Found"
               /\ pc \in {"send", "returned"}
               /\ pc = "returned" =>
                     /\ Len(events) = 2
                     /\ IsStart(events[1], 404)
                     /\ IsBody(events[2], "Not Found")

C17_Witness ==
    /\ Resolved
    /\ scope.path = PathItemNew /\ scope.method = "GET"
    /\ reglog = << <<TplItem, "GET", "get_item">>, <<TplNew, "GET", "index">> >>
    /\ invoked = NoCall
    /\ pc = "returned"
    /\ Len(events) = 2

\* What one send call has emitted so far is a start event followed by body
\* events, of which only the last can have more_body clear; a call that has
\* returned emitted such a last event.
EventsInOrder(c) ==
    LET w == wire[c]
    IN /\ w # <<>> => w[1].type = "http.response.start"
       /\ \A i \in 2..Len(w) : w[i].type = "http.response.body"
       /\ \A i \in 2..(Len(w) - 1) : w[i].more_body
       /\ calls[c].pc = "done" =>
             /\ Len(w) >= 2
             /\ ~w[Len(w)].more_body

\* The sent flag, as one send call sees it: false while the transport has
\* not accepted the call's last event, true once the call has returned,
\* false after the transport failed on an event of the call.
SentFlagFollows(c) ==
    /\ calls[c].pc = "awaiting" => ~inst.sent
    /\ calls[c].pc = "failed" => ~inst.sent
    /\ calls[c].pc = "done" => inst.sent

\* C18: in every send call that emits events the start event comes first and
\* once, the body events follow, exactly one body event has more_body clear
\* and it is the last event; the sent flag is false until the transport has
\* accepted that last event and true afterwards, and stays false if the
\* transport fails on an event.
C18_SendProtocol ==
    \A c \in 1..MaxCalls : EventsInOrder(c) /\ SentFlagFollows(c)
====
